---- MODULE Spec2Model ----
(***************************************************************************)
(* The timeout combinator of listing-17-timeout-final:                     *)
(*                                                                         *)
(*   async fn timeout<F: Future>(max_time, future)                         *)
(*       -> Result<F::Output, Duration> {                                  *)
(*     match trpl::race(future, trpl::sleep(max_time)).await {             *)
(*       Either::Left(output) => Ok(output),                               *)
(*       Either::Right(_)     => Err(max_time),                            *)
(*     }                                                                   *)
(*   }                                                                     *)
(*                                                                         *)
(* driven by block_on as in the listing's main.  Time is a discrete clock  *)
(* of ticks (TicksPerSec ticks per second).  One poll of the race is one   *)
(* scheduling step; the clock advances while the task is parked (Tick)     *)
(* and inside a poll only where the wrapped operation blocks the thread    *)
(* (thread::sleep, as `slow` of listing-17-21 does).  A woken task is      *)
(* polled before the clock's next tick.                                    *)
(***************************************************************************)
EXTENDS Integers, Sequences, FiniteSets, TLC

\* ---------------------------------------------------------------- bounds
MaxTime == 3
MaxDur == 2
MaxSteps == 2
MaxStart == 1
MaxWakes == 2
TicksPerSec == 2

\* ------------------------------------------------- the listing's constants
SlowSecs == 5
TimeoutSecs == 2

\* Duration::from_secs / Duration::as_secs over a clock of ticks.
from_secs(s) == s * TicksPerSec
as_secs(d) == d \div TicksPerSec

\* --------------------------------------------------- the wrapped operation
\* An operation is an async block: a sequence of steps followed by a value.
\*   sleep d : trpl::sleep(d).await      (suspends on a timer)
\*   block d : slow(_, d)                (thread::sleep: blocks inside the poll)
\*   yield   : a suspension point that wakes the task at once
\*   pending : a suspension point that is never woken
SleepSteps == [k : {"sleep"}, d : 0..MaxDur]
BlockSteps == [k : {"block"}, d : 1..MaxDur]
SuspendSteps == {[k |-> "yield", d |-> 0], [k |-> "pending", d |-> 0]}
Instr == SleepSteps \cup BlockSteps \cup SuspendSteps

Bodies == UNION {[1..n -> Instr] : n \in 0..MaxSteps}

\* "done" is an ordinary value, "OpError" an error value of the operation's
\* own output type, "Finally finished" the listing's value.
Values == {"done", "OpError", "Finally finished"}

\* let slow = async { trpl::sleep(Duration::from_secs(5)).await; "Finally finished" };
ListingSlow == <<[k |-> "sleep", d |-> from_secs(SlowSecs)]>>
ListingMaxTime == from_secs(TimeoutSecs)

Max(a, b) == IF a >= b THEN a ELSE b
MaxClock == MaxStart + Max(MaxTime, ListingMaxTime) + 1

VARIABLES
    max_time,    \* the deadline passed to timeout
    opBody,      \* the steps of `future`
    opValue,     \* the value `future` yields
    t0,          \* the clock when timeout is first polled
    now,         \* the clock
    woken,       \* the task's waker has been called since its last poll
    future,      \* the operation's position: [pc, sleeping, dl, yielded, done]
    opPolls,     \* polls of the left branch (the operation)
    timerPolls,  \* polls of the right branch (the timer)
    state,       \* "Racing" | "Resolved"
    outcome,     \* what timeout returned: [tag, output, elapsed]
    nOk,         \* how many times Ok(_) was produced
    nErr,        \* how many times Err(_) was produced
    decidedAt,   \* the clock at the deciding poll
    mainPc,      \* main: "await" | "done"
    mainOut,     \* what main printed: [branch, message, secs]
    call,        \* which invocation of timeout this is: 1 | 2
    firstOutcome,\* what the first invocation returned
    interfered,  \* a concurrent call has blocked the thread during this call
    wakes        \* wake-ups of the task caused by a concurrent call

callVars == <<call, firstOutcome, interfered, wakes>>

\* The merged-stream program of listing-17-39 (clock in milliseconds).
VARIABLES
    clock,       \* the clock, in ms
    msgTask,     \* get_messages' task: [pc, index, wake, sends, errs]
    msgChan,     \* its channel: the sent, not yet received items
    intTask,     \* get_intervals' task: [pc, count, wake, sends, errs]
    intChan,     \* its channel
    rxOpen,      \* the receivers are alive (merged has not been dropped)
    messages,    \* .timeout(200ms) over get_messages(): [deadline, poll_deadline]
    throttle,    \* .throttle(500ms): [delay, has_delayed]
    intervals,   \* .timeout(10s) over the throttled stream: [deadline, poll_deadline]
    merged,      \* merge + take(20): [a_first, a_done, b_done, remaining]
    wakers,      \* what the parked consumer waits on: [msgRx, intRx, mTimer, thTimer, iTimer]
    cWoken,      \* the consumer has been woken since its last poll
    loopPc,      \* main's while-let loop: "loop" | "done"
    printed,     \* what the loop printed, in order
    shutdown     \* block_on has returned and dropped the runtime

streamVars == <<clock, msgTask, msgChan, intTask, intChan, rxOpen, messages, throttle,
                intervals, merged, wakers, cWoken, loopPc, printed, shutdown>>

vars == <<max_time, opBody, opValue, t0, now, woken, future, opPolls, timerPolls,
          state, outcome, nOk, nErr, decidedAt, mainPc, mainOut, callVars, streamVars>>

inputs == <<max_time, opBody, opValue, t0>>

\* ============================================================ listing-17-39
\* let messages = ["a", "b", "c", "d", "e", "f", "g", "h", "i", "j"];
Messages == <<"a", "b", "c", "d", "e", "f", "g", "h", "i", "j">>

\* How far the clock of the stream program is followed.
MaxStreamClock == 2100

MessagesTimeoutMs == 200
ThrottleMs == 500
IntervalsTimeoutSecs == 10
IntervalSleepMs == 1
TakeLimit == 20

\* Duration::from_secs on a clock of milliseconds.
secs_to_millis(s) == s * 1000

\* let time_to_sleep = if index % 2 == 0 { 100 } else { 300 };
time_to_sleepSwapped(index) == IF index % 2 = 0 THEN 300 ELSE 100
time_to_sleep(index) == IF index % 2 = 0 THEN 100 ELSE 300

\* format!("Message: '{message}'")
FormatMessage(message) == [kind |-> "Message", text |-> message, n |-> 0]
\* .map(|count| format!("Interval #{count}"))
FormatInterval(n) == [kind |-> "Interval", text |-> "", n |-> n]
NoItem == [kind |-> "None", text |-> "", n |-> 0]

\* What a poll of a stream returns: Ready(Some(Ok(item))), Ready(Some(Err(Elapsed))),
\* Ready(None) or Pending.
Some(item) == [r |-> "ok", item |-> item]
Elapsed == [r |-> "err", item |-> NoItem]
None == [r |-> "none", item |-> NoItem]
Pending == [r |-> "pending", item |-> NoItem]

\* ReceiverStream::poll_next on a channel holding `chan`, whose sender is
\* alive iff txOpen: the oldest item, None once closed and empty, else Pending.
RxPoll(chan, txOpen) ==
    IF chan # <<>> THEN Some(Head(chan))
    ELSE IF ~txOpen THEN None ELSE Pending

\* tokio_stream's Timeout::poll_next at clock t over the inner stream's
\* result: an item passes and re-arms the deadline; while the inner stream
\* is pending, the deadline, if armed and expired, gives one Elapsed and is
\* disarmed until the next item.  Returns [res, st, timer] (timer: the
\* deadline is awaited).
StreamTimeout(inner, st, dur, t) ==
    IF inner.r = "ok"
    THEN [res |-> inner, st |-> [deadline |-> t + dur, poll_deadline |-> TRUE],
          timer |-> FALSE]
    ELSE IF inner.r = "none" THEN [res |-> None, st |-> st, timer |-> FALSE]
    ELSE IF st.poll_deadline
         THEN IF t >= st.deadline
              THEN [res |-> Elapsed, st |-> [st EXCEPT !.poll_deadline = FALSE],
                    timer |-> FALSE]
              ELSE [res |-> Pending, st |-> st, timer |-> TRUE]
         ELSE [res |-> Pending, st |-> st, timer |-> FALSE]

\* The `messages` stream polled at clock t: [res, st, chan, rx, timer].
PollMessages(t) ==
    LET inner == RxPoll(msgChan, msgTask.pc = "sleep")
        to == StreamTimeout(inner, messages, MessagesTimeoutMs, t)
    IN [res |-> to.res, st |-> to.st,
        chan |-> IF inner.r = "ok" THEN Tail(msgChan) ELSE msgChan,
        rx |-> inner.r = "pending", timer |-> to.timer]

\* tokio_stream's Throttle::poll_next at clock t: the inner stream is polled
\* only once the delay has elapsed; an item re-arms the delay.
\* The `intervals` stream polled at clock t: [res, th, st, chan, rx, thTimer, timer].
PollIntervals(t) ==
    LET gate == throttle.has_delayed \/ t >= throttle.delay
        rxr == IF gate THEN RxPoll(intChan, intTask.pc = "sleep") ELSE Pending
        inner == IF rxr.r = "ok" THEN Some(FormatInterval(rxr.item)) ELSE rxr
        th == IF ~gate THEN throttle
              ELSE IF rxr.r = "ok"
                   THEN [delay |-> t + ThrottleMs, has_delayed |-> FALSE]
                   ELSE [throttle EXCEPT !.has_delayed = TRUE]
        to == StreamTimeout(inner, intervals, secs_to_millis(IntervalsTimeoutSecs), t)
    IN [res |-> to.res, th |-> th, st |-> to.st,
        chan |-> IF rxr.r = "ok" THEN Tail(intChan) ELSE intChan,
        rx |-> gate /\ rxr.r = "pending", thTimer |-> ~gate, timer |-> to.timer]

\* The state of listing-17-39 when main starts polling: both tasks spawned
\* and in their first sleep, the streams built, nothing sent.
StreamStart ==
    /\ clock = 0
    /\ msgTask = [pc |-> "sleep", index |-> 0, wake |-> time_to_sleep(0),
                  sends |-> 0, errs |-> 0]
    /\ msgChan = <<>>
    /\ intTask = [pc |-> "sleep", count |-> 0, wake |-> IntervalSleepMs,
                  sends |-> 0, errs |-> 0]
    /\ intChan = <<>>
    /\ rxOpen = TRUE
    /\ messages = [deadline |-> MessagesTimeoutMs, poll_deadline |-> TRUE]
    /\ throttle = [delay |-> 0, has_delayed |-> TRUE]
    /\ intervals = [deadline |-> secs_to_millis(IntervalsTimeoutSecs),
                    poll_deadline |-> TRUE]
    /\ merged = [a_first |-> TRUE, a_done |-> FALSE, b_done |-> FALSE,
                 remaining |-> TakeLimit]
    /\ wakers = [msgRx |-> FALSE, intRx |-> FALSE, mTimer |-> FALSE,
                 thTimer |-> FALSE, iTimer |-> FALSE]
    /\ cWoken = TRUE
    /\ loopPc = "loop"
    /\ printed = <<>>
    /\ shutdown = FALSE

\* ============================================= listing-17-timeout-final
NoOutcome == [tag |-> "None", output |-> "", elapsed |-> 0]
Ok(output) == [tag |-> "Ok", output |-> output, elapsed |-> 0]
Err(d) == [tag |-> "Err", output |-> "", elapsed |-> d]

\* ------------------------------------------------------------ sleep, race
\* trpl::sleep: resolves once the duration has elapsed since its creation.
SleepReady(dl, t) == t >= dl

\* One poll of the operation from position s ([pc, sleeping, dl, yielded,
\* done] plus the clock `now` and whether it called the waker): runs the
\* block up to its next pending suspension point or to its end.
RECURSIVE RunOp(_)
RunOp(s) ==
    IF s.pc > Len(opBody) THEN [s EXCEPT !.done = TRUE]
    ELSE LET i == opBody[s.pc] IN
         CASE i.k = "block" ->
                RunOp([s EXCEPT !.pc = @ + 1, !.now = @ + i.d])
           [] i.k = "sleep" ->
                LET dl == IF s.sleeping THEN s.dl ELSE s.now + i.d IN
                IF SleepReady(dl, s.now)
                THEN RunOp([s EXCEPT !.pc = @ + 1, !.sleeping = FALSE, !.dl = 0])
                ELSE [s EXCEPT !.sleeping = TRUE, !.dl = dl]
           [] i.k = "yield" ->
                IF s.yielded
                THEN RunOp([s EXCEPT !.pc = @ + 1, !.yielded = FALSE])
                ELSE [s EXCEPT !.yielded = TRUE, !.wake = TRUE]
           [] OTHER -> s

\* trpl::race(a, b): polls a, and b only if a is pending; resolves with the
\* first that is ready, tagged by side.
race(aReady, aOut, bReady) ==
    IF aReady THEN [side |-> "Left", out |-> aOut]
    ELSE IF bReady THEN [side |-> "Right", out |-> ""]
    ELSE [side |-> "Pending", out |-> ""]

\* ---------------------------------------------------------------- timeout
\* trpl::sleep(max_time), created when timeout is first polled.
TimerDeadlineAbsolute == max_time
TimerDeadlineEarly == t0 + max_time - 1
TimerDeadlineLate == t0 + max_time + 1
TimerDeadline == t0 + max_time

\* The match on the race's result.
TimeoutMatchFlatten(r) ==
    IF r.side = "Left" /\ r.out # "OpError" THEN Ok(r.out) ELSE Err(max_time)
TimeoutMatchSwapped(r) ==
    IF r.side = "Left" THEN Err(max_time) ELSE Ok(r.out)
TimeoutMatchWrongValue(r) ==
    IF r.side = "Left" THEN Ok("done") ELSE Err(max_time)
TimeoutMatchWrongDuration(r) ==
    IF r.side = "Left" THEN Ok(r.out) ELSE Err(0)
TimeoutMatch(r) ==
    IF r.side = "Left" THEN Ok(r.out) ELSE Err(max_time)

\* `.await` on the race: the async fn returns when the race resolves and
\* stays suspended while it is pending.
AwaitStateNeverReturns(r) == "Racing"
AwaitState(r) == IF r.side = "Pending" THEN "Racing" ELSE "Resolved"

\* block_on polls the future while it has not returned and has been woken.
PollEnabled == state = "Racing" /\ woken

Poll ==
    /\ PollEnabled
    /\ LET o == RunOp([pc |-> future.pc, sleeping |-> future.sleeping,
                       dl |-> future.dl, yielded |-> future.yielded,
                       done |-> future.done, now |-> now, wake |-> FALSE])
           r == race(o.done, opValue, SleepReady(TimerDeadline, o.now))
           res == TimeoutMatch(r)
           next == AwaitState(r)
       IN /\ now' = o.now
          /\ future' = [pc |-> o.pc, sleeping |-> o.sleeping, dl |-> o.dl,
                        yielded |-> o.yielded, done |-> o.done]
          /\ opPolls' = opPolls + 1
          /\ timerPolls' = IF o.done THEN timerPolls ELSE timerPolls + 1
          /\ state' = next
          /\ IF r.side = "Pending"
             THEN /\ woken' = o.wake
                  /\ UNCHANGED <<outcome, nOk, nErr, decidedAt>>
             ELSE /\ woken' = FALSE
                  /\ outcome' = res
                  /\ nOk' = IF res.tag = "Ok" THEN nOk + 1 ELSE nOk
                  /\ nErr' = IF res.tag = "Err" THEN nErr + 1 ELSE nErr
                  /\ decidedAt' = o.now
    /\ UNCHANGED <<inputs, mainPc, mainOut, callVars, streamVars>>

\* How far the clock is followed: to MaxClock in the first invocation; in a
\* second one as far again from its start, and no further than its return.
ClockCap ==
    IF call = 1 THEN MaxClock
    ELSE IF state = "Resolved" THEN now ELSE t0 + MaxClock

\* The clock advances while the task is parked (or has returned); a timer
\* that is registered and expires wakes the task.
Tick ==
    /\ ~PollEnabled
    /\ now < ClockCap
    /\ now' = now + 1
    /\ woken' = (woken \/ (/\ state = "Racing"
                           /\ \/ SleepReady(TimerDeadline, now + 1)
                              \/ future.sleeping /\ SleepReady(future.dl, now + 1)))
    /\ UNCHANGED <<inputs, future, opPolls, timerPolls, state, outcome, nOk, nErr,
                   decidedAt, mainPc, mainOut, callVars, streamVars>>

\* main's match on the result of timeout(..).await.
MainMatch ==
    /\ state = "Resolved"
    /\ mainPc = "await"
    /\ mainPc' = "done"
    /\ mainOut' = IF outcome.tag = "Ok"
                  THEN [branch |-> "Ok", message |-> outcome.output, secs |-> 0]
                  ELSE [branch |-> "Err", message |-> "",
                        secs |-> as_secs(outcome.elapsed)]
    /\ UNCHANGED <<inputs, now, woken, future, opPolls, timerPolls, state, outcome,
                   nOk, nErr, decidedAt, callVars, streamVars>>

Init ==
    /\ \/ /\ max_time \in 0..MaxTime
          /\ opBody \in Bodies
          /\ opValue \in Values
       \/ /\ max_time = ListingMaxTime
          /\ opBody = ListingSlow
          /\ opValue = "Finally finished"
    /\ t0 \in 0..MaxStart
    /\ now = t0
    /\ woken = TRUE
    /\ future = [pc |-> 1, sleeping |-> FALSE, dl |-> 0, yielded |-> FALSE,
                 done |-> FALSE]
    /\ opPolls = 0
    /\ timerPolls = 0
    /\ state = "Racing"
    /\ outcome = NoOutcome
    /\ nOk = 0
    /\ nErr = 0
    /\ decidedAt = 0
    /\ mainPc = "await"
    /\ mainOut = [branch |-> "none", message |-> "", secs |-> 0]
    /\ call = 1
    /\ firstOutcome = NoOutcome
    /\ interfered = FALSE
    /\ wakes = 0
    /\ StreamStart

Next == Poll \/ Tick \/ MainMatch

Spec == Init /\ [][Next]_vars

\* The scheduler keeps polling a woken task and the clock keeps advancing.
FairSpec == Spec /\ WF_vars(Poll) /\ WF_vars(Tick) /\ WF_vars(MainMatch)

\* ------------------------------------------------- listing-17-39: the steps
timeoutVars == <<max_time, opBody, opValue, t0, now, woken, future, opPolls,
                 timerPolls, state, outcome, nOk, nErr, decidedAt, mainPc, mainOut,
                 callVars>>

\* A loop that advances the index by two: every other message is skipped.
MsgNextIterationSkip(t, at) ==
    IF t.index + 2 < Len(Messages)
    THEN [t EXCEPT !.index = @ + 2, !.wake = at + time_to_sleep(t.index + 2),
                   !.sends = @ + 1]
    ELSE [t EXCEPT !.index = @ + 2, !.pc = "done", !.sends = @ + 1]

\* get_messages' loop after a successful send from iteration t.index at
\* clock `at`: the next iteration's sleep, or the end of the array (the task
\* ends and drops tx).
MsgNextIteration(t, at) ==
    IF t.index + 1 < Len(Messages)
    THEN [t EXCEPT !.index = @ + 1, !.wake = at + time_to_sleep(t.index + 1),
                   !.sends = @ + 1]
    ELSE [t EXCEPT !.index = @ + 1, !.pc = "done", !.sends = @ + 1]

\* if let Err(send_error) = result { eprintln!(..); break; }
MsgOnSendErrorContinue(t, at) == [MsgNextIteration(t, at) EXCEPT !.errs = @ + 1]
MsgOnSendError(t, at) == [t EXCEPT !.pc = "done", !.sends = @ + 1, !.errs = @ + 1]

\* get_messages' task wakes from its sleep and sends messages[index].
MsgSend ==
    /\ ~shutdown
    /\ msgTask.pc = "sleep"
    /\ clock >= msgTask.wake
    /\ IF rxOpen
       THEN /\ msgChan' = Append(msgChan, FormatMessage(Messages[msgTask.index + 1]))
            /\ msgTask' = MsgNextIteration(msgTask, clock)
            /\ cWoken' = (cWoken \/ wakers.msgRx)
       ELSE /\ msgTask' = MsgOnSendError(msgTask, clock)
            /\ UNCHANGED <<msgChan, cWoken>>
    /\ UNCHANGED <<clock, intTask, intChan, rxOpen, messages, throttle, intervals,
                   merged, wakers, loopPc, printed, shutdown, timeoutVars>>

\* count += 1;
NextCountSkip(c) == c + 2
NextCountStuck(c) == IF c >= 3 THEN c ELSE c + 1
NextCount(c) == c + 1

\* get_intervals' loop after a successful send at clock `at`.
IntNextIteration(t, at) ==
    [t EXCEPT !.wake = at + IntervalSleepMs, !.sends = @ + 1]

\* if let Err(send_error) = result { eprintln!(..); break; };
IntOnSendErrorContinue(t, at) == [IntNextIteration(t, at) EXCEPT !.errs = @ + 1]
IntOnSendError(t, at) == [t EXCEPT !.pc = "done", !.sends = @ + 1, !.errs = @ + 1]

\* get_intervals' task wakes from its sleep, increments count and sends it.
IntSend ==
    /\ ~shutdown
    /\ intTask.pc = "sleep"
    /\ clock >= intTask.wake
    /\ LET t == [intTask EXCEPT !.count = NextCount(@)] IN
       IF rxOpen
       THEN /\ intChan' = Append(intChan, t.count)
            /\ intTask' = IntNextIteration(t, clock)
            /\ cWoken' = (cWoken \/ wakers.intRx)
       ELSE /\ intTask' = IntOnSendError(t, clock)
            /\ UNCHANGED <<intChan, cWoken>>
    /\ UNCHANGED <<clock, msgTask, msgChan, rxOpen, messages, throttle, intervals,
                   merged, wakers, loopPc, printed, shutdown, timeoutVars>>

\* tokio_stream's Merge::poll_next over the fused streams a = messages and
\* b = intervals: the stream polled first alternates; the first item found
\* is returned, the other stream is polled only if the first gave none.
\* [res, src, pa, pb, polledA, polledB, a_done, b_done].
MergePoll(t) ==
    LET pa == PollMessages(t)
        pb == PollIntervals(t)
        first == merged.a_first
        aHit == ~merged.a_done /\ pa.res.r \in {"ok", "err"}
        bHit == ~merged.b_done /\ pb.res.r \in {"ok", "err"}
        polledA == ~merged.a_done /\ (first \/ ~bHit)
        polledB == ~merged.b_done /\ (~first \/ ~aHit)
        src == IF first
               THEN (IF aHit THEN "messages" ELSE IF bHit THEN "intervals" ELSE "none")
               ELSE (IF bHit THEN "intervals" ELSE IF aHit THEN "messages" ELSE "none")
        waiting == \/ polledA /\ pa.res.r = "pending"
                   \/ polledB /\ pb.res.r = "pending"
    IN [res |-> IF src = "messages" THEN pa.res
                ELSE IF src = "intervals" THEN pb.res
                ELSE IF waiting THEN Pending ELSE None,
        src |-> src, pa |-> pa, pb |-> pb,
        polledA |-> polledA, polledB |-> polledB,
        a_done |-> merged.a_done \/ (polledA /\ pa.res.r = "none"),
        b_done |-> merged.b_done \/ (polledB /\ pb.res.r = "none")]

\* The merged stream without a limit.
TakeAllowsAlways(remaining) == remaining = remaining

\* .take(20): how many items the merged stream may still yield.
TakeAllows(remaining) == remaining > 0

\* One poll of `merged.next().await` in main's loop and the loop body:
\* an item is printed and the loop polls again; None ends the loop (and the
\* async block, which drops merged and with it both receivers); Pending
\* parks the task.
Consume ==
    /\ loopPc = "loop"
    /\ cWoken
    /\ IF ~TakeAllows(merged.remaining)
       THEN /\ loopPc' = "done"
            /\ rxOpen' = FALSE
            /\ cWoken' = FALSE
            /\ UNCHANGED <<msgChan, intChan, messages, throttle, intervals, merged,
                           wakers, printed>>
       ELSE LET m == MergePoll(clock) IN
            /\ msgChan' = IF m.polledA THEN m.pa.chan ELSE msgChan
            /\ messages' = IF m.polledA THEN m.pa.st ELSE messages
            /\ intChan' = IF m.polledB THEN m.pb.chan ELSE intChan
            /\ throttle' = IF m.polledB THEN m.pb.th ELSE throttle
            /\ intervals' = IF m.polledB THEN m.pb.st ELSE intervals
            /\ merged' = [a_first |-> ~merged.a_first, a_done |-> m.a_done,
                          b_done |-> m.b_done,
                          remaining |-> IF m.res.r \in {"ok", "err"}
                                        THEN merged.remaining - 1
                                        ELSE IF m.res.r = "none" THEN 0
                                        ELSE merged.remaining]
            /\ wakers' = [msgRx |-> m.res.r = "pending" /\ m.polledA /\ m.pa.rx,
                          intRx |-> m.res.r = "pending" /\ m.polledB /\ m.pb.rx,
                          mTimer |-> m.res.r = "pending" /\ m.polledA /\ m.pa.timer,
                          thTimer |-> m.res.r = "pending" /\ m.polledB /\ m.pb.thTimer,
                          iTimer |-> m.res.r = "pending" /\ m.polledB /\ m.pb.timer]
            /\ printed' = IF m.res.r \in {"ok", "err"}
                          THEN Append(printed, [ok |-> m.res.r = "ok", src |-> m.src,
                                                item |-> m.res.item, at |-> clock])
                          ELSE printed
            /\ cWoken' = (m.res.r \in {"ok", "err"})
            /\ loopPc' = IF m.res.r = "none" THEN "done" ELSE "loop"
            /\ rxOpen' = (m.res.r # "none")
    /\ UNCHANGED <<clock, msgTask, intTask, shutdown, timeoutVars>>

\* The clock advances by 1 ms while no task is runnable; an awaited timer
\* that expires wakes the consumer.
StreamTick ==
    /\ clock < MaxStreamClock
    /\ loopPc = "loop"
    /\ ~cWoken
    /\ ~(msgTask.pc = "sleep" /\ clock >= msgTask.wake)
    /\ ~(intTask.pc = "sleep" /\ clock >= intTask.wake)
    /\ clock' = clock + 1
    /\ cWoken' = (\/ wakers.mTimer /\ clock + 1 >= messages.deadline
                  \/ wakers.thTimer /\ clock + 1 >= throttle.delay
                  \/ wakers.iTimer /\ clock + 1 >= intervals.deadline)
    /\ UNCHANGED <<msgTask, msgChan, intTask, intChan, rxOpen, messages, throttle,
                   intervals, merged, wakers, loopPc, printed, shutdown, timeoutVars>>

\* block_on returns and main ends: the runtime is dropped and a task still
\* in its sleep is never polled again.
Shutdown ==
    /\ loopPc = "done"
    /\ ~shutdown
    /\ shutdown' = TRUE
    /\ msgTask' = IF msgTask.pc = "sleep" THEN [msgTask EXCEPT !.pc = "cancelled"]
                  ELSE msgTask
    /\ intTask' = IF intTask.pc = "sleep" THEN [intTask EXCEPT !.pc = "cancelled"]
                  ELSE intTask
    /\ UNCHANGED <<clock, msgChan, intChan, rxOpen, messages, throttle, intervals,
                   merged, wakers, cWoken, loopPc, printed, timeoutVars>>

StreamInit ==
    /\ Init
    /\ opBody = ListingSlow
    /\ max_time = ListingMaxTime
    /\ t0 = 0

StreamNext == Consume \/ MsgSend \/ IntSend \/ StreamTick \/ Shutdown

StreamSpec == StreamInit /\ [][StreamNext]_vars

\* Every runnable task is eventually run and the clock keeps advancing.
StreamFairSpec ==
    /\ StreamSpec
    /\ WF_vars(Consume)
    /\ WF_vars(MsgSend)
    /\ WF_vars(IntSend)
    /\ WF_vars(StreamTick)
    /\ WF_vars(Shutdown)

\* ------------------------------------------------------ a second invocation
\* The caller invokes timeout again with the same max_time and a fresh copy
\* of the same operation; the clock is whatever it has become.
CallAgain ==
    /\ call = 1
    /\ mainPc = "done"
    /\ call' = 2
    /\ firstOutcome' = outcome
    /\ t0' = now
    /\ woken' = TRUE
    /\ future' = [pc |-> 1, sleeping |-> FALSE, dl |-> 0, yielded |-> FALSE,
                  done |-> FALSE]
    /\ opPolls' = 0
    /\ timerPolls' = 0
    /\ state' = "Racing"
    /\ outcome' = NoOutcome
    /\ nOk' = 0
    /\ nErr' = 0
    /\ decidedAt' = 0
    /\ mainPc' = "await"
    /\ mainOut' = [branch |-> "none", message |-> "", secs |-> 0]
    /\ UNCHANGED <<max_time, opBody, opValue, now, interfered, wakes, streamVars>>

\* A concurrent call on the same task blocks the thread inside its poll
\* (thread::sleep, as `slow` does): the clock advances by d while this
\* call, already polled once, cannot be polled; timers that expire
\* meanwhile wake the task.  One such poll per invocation is followed.
ConcurrentPoll ==
    /\ call = 2
    /\ ~interfered
    /\ state = "Racing"
    /\ opPolls >= 1
    /\ now < ClockCap
    /\ \E i \in BlockSteps :
          /\ now' = now + i.d
          /\ woken' = (\/ woken
                       \/ SleepReady(TimerDeadline, now + i.d)
                       \/ future.sleeping /\ SleepReady(future.dl, now + i.d))
    /\ interfered' = TRUE
    /\ UNCHANGED <<inputs, future, opPolls, timerPolls, state, outcome, nOk, nErr,
                   decidedAt, mainPc, mainOut, call, firstOutcome, wakes, streamVars>>

\* A concurrent call on the same task wakes the task, so this call is
\* polled again although none of its own timers has expired.
ConcurrentWake ==
    /\ call = 2
    /\ state = "Racing"
    /\ opPolls >= 1
    /\ ~woken
    /\ wakes < MaxWakes
    /\ woken' = TRUE
    /\ wakes' = wakes + 1
    /\ UNCHANGED <<inputs, now, future, opPolls, timerPolls, state, outcome, nOk,
                   nErr, decidedAt, mainPc, mainOut, call, firstOutcome, interfered,
                   streamVars>>

TwoCallNext == Next \/ CallAgain \/ ConcurrentPoll \/ ConcurrentWake

TwoCallSpec == Init /\ [][TwoCallNext]_vars

\* ------------------------------------------------- what an operation does
\* Properties of an operation read off its steps alone (not off its polls).
\* The clock time the operation takes when awaited directly: every sleep
\* and every blocking call runs its full duration, a yield takes none.
RECURSIVE OpDuration(_)
OpDuration(b) == IF b = <<>> THEN 0 ELSE Head(b).d + OpDuration(Tail(b))

\* The operation never resolves: it reaches a suspension nobody wakes.
HasPending(b) == \E i \in 1..Len(b) : b[i].k = "pending"

\* The operation blocks the thread inside a poll.
Blocks(b) == \E i \in 1..Len(b) : b[i].k = "block"

\* The operation has a suspension point that is not a timer.
Yields(b) == \E i \in 1..Len(b) : b[i].k = "yield"

\* The operation returns Pending at least once before its value.
NeedsSuspension(b) ==
    \E i \in 1..Len(b) :
        b[i].k \in {"yield", "pending"} \/ (b[i].k = "sleep" /\ b[i].d >= 1)

Decided == nOk + nErr >= 1

\* -------------------------------------------------------------- properties

\* C1: an operation that resolves strictly before the deadline makes
\* timeout return Ok carrying exactly the operation's own value.
C1_CompletionPrecedence ==
    (state = "Resolved" /\ ~HasPending(opBody) /\ OpDuration(opBody) < max_time)
        => outcome = Ok(opValue)

\* C1 witness: deadline 2, the operation sleeps 1 and yields "done".
C1_Witness ==
    /\ state = "Resolved"
    /\ opBody = <<[k |-> "sleep", d |-> 1]>>
    /\ max_time = 2
    /\ opValue = "done"
    /\ outcome = Ok("done")
    /\ decidedAt = t0 + 1

\* C2 as stated: an operation that never resolves, or resolves strictly
\* after the deadline, makes timeout return Err(max_time); the listing's
\* main prints the Err branch with 2 seconds.
C2_Original ==
    /\ (state = "Resolved" /\ (HasPending(opBody) \/ OpDuration(opBody) > max_time))
           => outcome = Err(max_time)
    /\ (mainPc = "done" /\ opBody = ListingSlow /\ max_time = ListingMaxTime)
           => mainOut = [branch |-> "Err", message |-> "", secs |-> TimeoutSecs]

\* C2 amended: the same for an operation that never resolves, or that
\* resolves strictly after the deadline and never blocks the thread inside
\* a poll; the listing's main prints the Err branch with 2 seconds.
C2_ExpiryPrecedence ==
    /\ (/\ state = "Resolved"
        /\ \/ HasPending(opBody)
           \/ ~Blocks(opBody) /\ OpDuration(opBody) > max_time)
           => outcome = Err(max_time)
    /\ (mainPc = "done" /\ opBody = ListingSlow /\ max_time = ListingMaxTime)
           => mainOut = [branch |-> "Err", message |-> "", secs |-> TimeoutSecs]

\* C2 witness: the listing's main has printed its Err branch.
C2_Witness ==
    /\ mainPc = "done"
    /\ opBody = ListingSlow
    /\ max_time = ListingMaxTime
    /\ mainOut.branch = "Err"
    /\ decidedAt = t0 + from_secs(TimeoutSecs)

\* C3: one invocation produces at most one outcome, never both an Ok and
\* an Err.
C3_AtMostOneOutcome == nOk + nErr <= 1

\* C3 witness: an outcome was produced at a poll where both the operation
\* and the timer were ready.
C3_Witness ==
    /\ nOk + nErr = 1
    /\ future.done
    /\ SleepReady(TimerDeadline, decidedAt)
    /\ max_time >= 1

\* C4: under a scheduler that keeps polling and a clock that keeps
\* advancing, every invocation eventually resolves with an outcome.
C4_EventuallyResolves == <>(state = "Resolved" /\ outcome.tag # "None")

\* C4 witness: resolved although the operation never completes.
C4_Witness ==
    /\ state = "Resolved"
    /\ HasPending(opBody)
    /\ max_time >= 1
    /\ outcome.tag = "Err"

\* C5: when the operation and the timer become ready in the same
\* scheduling step, timeout returns Ok, not Err: at a deciding poll that
\* finds both ready, and whenever an operation that suspends only on timers
\* takes exactly the deadline.
C5_LeftBiasTie ==
    /\ (state = "Resolved" /\ future.done /\ SleepReady(TimerDeadline, decidedAt))
           => outcome = Ok(opValue)
    /\ (/\ state = "Resolved"
        /\ ~HasPending(opBody)
        /\ ~Yields(opBody)
        /\ OpDuration(opBody) = max_time)
           => outcome = Ok(opValue)

\* C5 witness: the operation sleeps exactly as long as the deadline.
C5_Witness ==
    /\ state = "Resolved"
    /\ opBody = <<[k |-> "sleep", d |-> 2]>>
    /\ max_time = 2
    /\ decidedAt = TimerDeadline
    /\ outcome.tag = "Ok"

\* C6: with deadline 0, an operation that is ready on its first poll gives
\* Ok, and one that needs a suspension point gives Err(0).
C6_ZeroDeadline ==
    (state = "Resolved" /\ max_time = 0)
        => /\ ~NeedsSuspension(opBody) => outcome = Ok(opValue)
           /\ NeedsSuspension(opBody) => outcome = Err(0)

\* C6 witness: deadline 0 against an operation that yields once.
C6_Witness ==
    /\ state = "Resolved"
    /\ max_time = 0
    /\ opBody = <<[k |-> "yield", d |-> 0]>>
    /\ outcome = Err(0)
    /\ opPolls = 1

\* C7: once the race is decided, neither branch is polled or advanced
\* again.
C7_LoserNotPolledAgain ==
    [][Decided => (opPolls' = opPolls /\ timerPolls' = timerPolls /\ future' = future)]_vars

\* C7 witness: the timer won, and the clock has since passed the time at
\* which the abandoned operation would have completed.
C7_Witness ==
    /\ Decided
    /\ outcome.tag = "Err"
    /\ ~HasPending(opBody)
    /\ ~future.done
    /\ future.sleeping
    /\ now >= future.dl

\* C8: the combinator is Racing (no outcome) or Resolved (an outcome);
\* Resolved is terminal and its outcome never changes.
C8_TwoStates ==
    /\ [](/\ state \in {"Racing", "Resolved"}
          /\ state = "Racing" <=> outcome = NoOutcome
          /\ state = "Resolved" <=> Decided)
    /\ [][state = "Resolved" => (state' = "Resolved" /\ outcome' = outcome)]_vars

\* C8 witness: the operation won, and the clock has since passed the
\* timer's deadline.
C8_Witness ==
    /\ state = "Resolved"
    /\ outcome.tag = "Ok"
    /\ decidedAt < TimerDeadline
    /\ now >= TimerDeadline

\* C9: Err is never returned while less than max_time has elapsed since
\* the race started.
C9_NoEarlyExpiry == outcome.tag = "Err" => decidedAt - t0 >= max_time

\* C9 witness: Err returned exactly when a non-zero deadline had elapsed.
C9_Witness ==
    /\ outcome.tag = "Err"
    /\ max_time >= 2
    /\ decidedAt - t0 = max_time

\* C10: an error value of the operation is returned unchanged inside Ok,
\* and Err is produced only by the timer winning the race.
C10_OpaqueError ==
    /\ (state = "Resolved" /\ future.done /\ opValue = "OpError")
           => outcome = Ok("OpError")
    /\ outcome.tag = "Err"
           => (~future.done /\ SleepReady(TimerDeadline, decidedAt)
               /\ outcome = Err(max_time))

\* C10 witness: the operation's error value came back inside Ok.
C10_Witness ==
    /\ state = "Resolved"
    /\ opValue = "OpError"
    /\ NeedsSuspension(opBody)
    /\ outcome = Ok("OpError")

MsgItems == SelectSeq(printed, LAMBDA x : x.src = "messages")
OkMessages == SelectSeq(printed, LAMBDA x : x.src = "messages" /\ x.ok)
OkIntervals == SelectSeq(printed, LAMBDA x : x.src = "intervals" /\ x.ok)

\* C12: the messages are received in the order sent, each at most once, and
\* none is lost to a timeout error: what was received, followed by what is
\* still in the channel, is exactly what was sent, and whenever the loop
\* parks every message sent so far has been printed as Ok.
C12_MessagesInOrderNoneLost ==
    /\ \A i \in 1..Len(OkMessages) :
           OkMessages[i].item = FormatMessage(Messages[i])
    /\ rxOpen =>
           /\ Len(OkMessages) + Len(msgChan) = msgTask.sends
           /\ \A j \in 1..Len(msgChan) :
                  msgChan[j] = FormatMessage(Messages[Len(OkMessages) + j])
    /\ (loopPc = "loop" /\ ~cWoken) => msgChan = <<>>
    /\ loopPc = "done" =>
           (Len(OkMessages) = msgTask.sends \/ Len(printed) = TakeLimit)

\* C12 witness: a timeout error was printed and the message sent after it
\* was printed next as Ok; all ten messages have been received.
C12_Witness ==
    /\ Len(OkMessages) = Len(Messages)
    /\ \E p \in 2..Len(MsgItems) :
           /\ ~MsgItems[p - 1].ok
           /\ MsgItems[p].ok
           /\ MsgItems[p].item = FormatMessage("j")

\* C13: on the messages stream a timeout error is printed right before a
\* message exactly when the producer slept 300 ms before sending it, i.e.
\* exactly for the odd indices; an error is never first nor follows an error.
C13_ErrorBeforeOddMessages ==
    \A p \in 1..Len(MsgItems) :
        IF MsgItems[p].ok
        THEN LET k == Cardinality({q \in 1..p : MsgItems[q].ok}) - 1
                 preceded == p > 1 /\ ~MsgItems[p - 1].ok
             IN /\ preceded <=> time_to_sleep(k) = 300
                /\ preceded <=> k % 2 = 1
        ELSE p > 1 /\ MsgItems[p - 1].ok

\* C13 witness: all ten messages and five timeout errors were printed.
C13_Witness ==
    /\ Len(OkMessages) = Len(Messages)
    /\ Len(MsgItems) = Len(Messages) + 5

\* C14: the loop prints at most 20 items and then ends, and main ends,
\* although the interval producer's loop has no exit of its own.
C14_AtMostTwentyThenEnds ==
    /\ [](Len(printed) <= TakeLimit)
    /\ [](loopPc = "done" => Len(printed) = TakeLimit)
    /\ <>(loopPc = "done" /\ shutdown)

\* C14 witness: the loop has ended after 20 items while the interval
\* producer is still in its loop.
C14_Witness ==
    /\ loopPc = "done"
    /\ Len(printed) = TakeLimit
    /\ intTask.pc = "sleep"
    /\ intTask.sends > TakeLimit

\* C15: the interval producer sends 1, 2, 3, ... without gap or repeat, and
\* the interval numbers the consumer prints are strictly increasing.
C15_IntervalsIncreasing ==
    /\ intTask.count = intTask.sends
    /\ rxOpen =>
           \A j \in 1..Len(intChan) : intChan[j] = intTask.count - Len(intChan) + j
    /\ \A i \in 1..Len(OkIntervals) :
           /\ OkIntervals[i].item.kind = "Interval"
           /\ OkIntervals[i].item.n >= 1
           /\ i > 1 => OkIntervals[i].item.n > OkIntervals[i - 1].item.n
    /\ \A i \in 1..Len(OkIntervals) :
           rxOpen => OkIntervals[i].item.n <= intTask.count - Len(intChan)

\* C15 witness: several intervals were printed while hundreds were sent.
C15_Witness ==
    /\ Len(OkIntervals) >= 3
    /\ Len(intChan) >= 500
    /\ OkIntervals[3].item.n > OkIntervals[2].item.n

====
